---- MODULE Spec2Model ----
(***************************************************************************)
(* Client Practical Reviewer (src/app.py): the header normalizer           *)
(* (_ensure_section_headers), the translator (translate_feedback), the     *)
(* document assembler (create_review_document) and the Streamlit handlers  *)
(* (Generate Review, the draft text area, Translate, Download).            *)
(*                                                                         *)
(* A text is a sequence of tokens.  The characters the code looks at one   *)
(* by one are tokens of their own: "*", "\n", " ", ":", "#", "-" and       *)
(* "<U+2022>" (the bullet character).  Every other token is a run of       *)
(* letters the code only ever compares as a whole (a header phrase, a      *)
(* word of prose); such a token holds none of the characters above at its  *)
(* ends, so a substring test or a regular-expression match on the Python   *)
(* string is the same test on the token sequence.                          *)
(***************************************************************************)
EXTENDS Integers, Sequences, FiniteSets, TLC

VARIABLES
    pc,               \* position of the run that is being modelled
    text,             \* _ensure_section_headers / translate_feedback: the argument
    norm1,            \* _ensure_section_headers(text)
    norm2,            \* _ensure_section_headers(norm1)
    target_language,  \* translate_feedback: the argument
    translated,       \* translate_feedback: the value returned
    calls,            \* number of client.messages.create calls made
    raised,           \* whether the call under way raised an exception
    student_name,     \* create_review_document: the arguments ...
    review_date,
    reviewer_name,
    status,
    feedback_text,
    lines,            \* feedback_text.split('\n')
    idx,              \* index of the next line of the for loop
    current_section,  \* "None", "well", "improve", "overall"
    doc,              \* the paragraphs added to the Document so far
    api_key,          \* st.secrets["ANTHROPIC_API_KEY"]
    session,          \* st.session_state: a function from slot names to values
    event,            \* the st.success / st.error message the last run issued
    response          \* the text the last successful external call returned

vars == <<pc, text, norm1, norm2, target_language, translated, calls, raised,
          student_name, review_date, reviewer_name, status, feedback_text,
          lines, idx, current_section, doc, api_key, session, event, response>>

normVars == <<text, norm1, norm2>>
translateVars == <<target_language, translated, calls, raised>>
docVars == <<student_name, review_date, reviewer_name, status, feedback_text,
             lines, idx, current_section, doc>>
sessionVars == <<api_key, session, event, response>>

(***************************************************************************)
(* Strings as token sequences                                              *)
(***************************************************************************)

\* Python: sub in s
Occurs(sub, s) ==
    \E i \in 1..(Len(s) - Len(sub) + 1) : SubSeq(s, i, i + Len(sub) - 1) = sub

\* Python: s.count(sub) for the headers, whose occurrences cannot overlap
\* by more than their "**" ends; every start position is counted.
CountOcc(sub, s) ==
    Cardinality({i \in 1..(Len(s) - Len(sub) + 1) :
                    SubSeq(s, i, i + Len(sub) - 1) = sub})

\* Python: s.startswith(prefix)
StartsWith(s, prefix) ==
    Len(s) >= Len(prefix) /\ SubSeq(s, 1, Len(prefix)) = prefix

STARS == <<"*", "*">>

(***************************************************************************)
(* _ensure_section_headers                                                 *)
(***************************************************************************)

\* re.IGNORECASE: the spellings of the inputs that differ from a pattern's
\* own spelling only in case.
Fold(tok) ==
    CASE tok = "CONCLUSION" -> "Conclusion"
      [] tok = "points forts" -> "Points forts"
      [] tok = "ce que vous avez bien fait" -> "Ce que vous avez bien fait"
      [] OTHER -> tok

\* The three dictionaries of header_fixes.  'english' is the canonical
\* header.  A pattern r'\*\*<alternatives><tail>\*\*' is the set of strings
\* its alternation spells out (ASCII spellings; "'" stands for the "." of
\* d.am and l.ensemble) and its tail: "" (nothing), ".+?" or ".*?".
header_fixes == <<
    [english |-> <<"*", "*", "What you did well", "*", "*">>,
     patterns |-> <<
        [alts |-> {"Ce que vous avez bien fait", "Ce que tu as bien fait"},
         tail |-> ""],
        [alts |-> {"Wat je goed gedaan", "Wat u goed gedaan",
                   "Wat je goed hebt gedaan", "Wat u goed hebt gedaan",
                   "Wat je goed heeft gedaan", "Wat u goed heeft gedaan"},
         tail |-> ""],
        [alts |-> {"Point fort", "Points fort", "Point forts", "Points forts",
                   "Point positif", "Points positif", "Point positifs",
                   "Points positifs"},
         tail |-> ""],
        [alts |-> {"Wat ging er goed"}, tail |-> ""] >>],
    [english |-> <<"*", "*", "What you could do differently", " ", "next time",
                   "*", "*">>,
     patterns |-> <<
        [alts |-> {"Ce que vous pourriez faire differemment",
                   "Ce que tu pourrais faire differemment"},
         tail |-> ".+?"],
        [alts |-> {"Wat je de volgende keer anders kunnen doen",
                   "Wat u de volgende keer anders kunnen doen",
                   "Wat je de volgende keer anders zou kunnen doen",
                   "Wat u de volgende keer anders zou kunnen doen",
                   "Wat je de volgende keer anders zoudt kunnen doen",
                   "Wat u de volgende keer anders zoudt kunnen doen"},
         tail |-> ""],
        [alts |-> {"Point a ameliorer", "Points a ameliorer",
                   "Axe d'amelioration", "Axes d'amelioration"},
         tail |-> ".*?"],
        [alts |-> {"Wat je anders kunnen doen", "Wat u anders kunnen doen",
                   "Wat je anders zou kunnen doen", "Wat u anders zou kunnen doen",
                   "Wat je anders zoudt kunnen doen",
                   "Wat u anders zoudt kunnen doen"},
         tail |-> ""] >>],
    [english |-> <<"*", "*", "Overall", "*", "*">>,
     patterns |-> <<
        [alts |-> {"En resume", "Conclusion", "Bilan", "Dans l'ensemble",
                   "Globalement"},
         tail |-> ""],
        [alts |-> {"Algeheel", "Over het geheel", "Samenvatting", "Algemeen",
                   "Totaal"},
         tail |-> ""] >>] >>

\* Whether s holds "**" at positions j, j+1.
StarsAt(s, j) == j >= 1 /\ j + 1 <= Len(s) /\ s[j] = "*" /\ s[j + 1] = "*"

\* The regular expression's match starting at position i of s: the position
\* of its last token, or 0 when it does not match there.  "." matches any
\* token but "\n"; a lazy tail stops at the first "**" that ends a match.
MatchEnd(pattern, s, i) ==
    IF ~(StarsAt(s, i) /\ i + 2 <= Len(s) /\ Fold(s[i + 2]) \in pattern.alts)
    THEN 0
    ELSE LET first == IF pattern.tail = ".+?" THEN i + 4 ELSE i + 3
             last == IF pattern.tail = "" THEN i + 3 ELSE Len(s) - 1
             ends == {j \in first..last :
                         /\ StarsAt(s, j)
                         /\ \A k \in (i + 3)..(j - 1) : s[k] # "\n"}
         IN  IF ends = {} THEN 0
             ELSE (CHOOSE j \in ends : \A k \in ends : j <= k) + 1

\* re.subn(pattern, repl, s, count=1, flags=re.IGNORECASE): the leftmost
\* match is replaced; <<new string, count>>.
subn(pattern, repl, s) ==
    LET starts == {i \in 1..Len(s) : MatchEnd(pattern, s, i) > 0}
    IN  IF starts = {} THEN <<s, 0>>
        ELSE LET i == CHOOSE k \in starts : \A m \in starts : k <= m
                 e == MatchEnd(pattern, s, i)
             IN  <<SubSeq(s, 1, i - 1) \o repl \o SubSeq(s, e + 1, Len(s)), 1>>

\* for pattern in fix['patterns']: ... if count > 0: break
RECURSIVE TryPatterns(_, _, _)
TryPatterns(fix, k, s) ==
    IF k > Len(fix.patterns) THEN s
    ELSE LET r == subn(fix.patterns[k], fix.english, s)
         IN  IF r[2] > 0 THEN r[1] ELSE TryPatterns(fix, k + 1, s)

\* The body of "for fix in header_fixes".
ApplyFix(fix, s) ==
    IF Occurs(fix.english, s) THEN s ELSE TryPatterns(fix, 1, s)

RECURSIVE ApplyFixes(_, _)
ApplyFixes(n, s) ==
    IF n = 0 THEN s ELSE ApplyFix(header_fixes[n], ApplyFixes(n - 1, s))

ensure_section_headers(s) == ApplyFixes(Len(header_fixes), s)

(***************************************************************************)
(* translate_feedback                                                      *)
(***************************************************************************)

\* A translate_feedback whose fallback branch passes the text through the
\* normalizer like the other two branches do.
translate_feedback_normalizing(english_text, language, reply) ==
    IF language = "French" \/ language = "Dutch"
    THEN IF reply.ok
         THEN [value |-> ensure_section_headers(reply.text), calls |-> 1,
               raised |-> FALSE]
         ELSE [value |-> <<>>, calls |-> 1, raised |-> TRUE]
    ELSE [value |-> ensure_section_headers(english_text), calls |-> 0,
          raised |-> FALSE]

\* translate_feedback(client, english_text, target_language), given what
\* client.messages.create does when it is called: reply.ok says whether it
\* returns (reply.text is message.content[0].text) or raises.  calls is the
\* number of calls made; raised says whether the exception leaves the
\* function.
translate_feedback(english_text, language, reply) ==
    IF language = "French" \/ language = "Dutch"
    THEN IF reply.ok
         THEN [value |-> ensure_section_headers(reply.text), calls |-> 1,
               raised |-> FALSE]
         ELSE [value |-> <<>>, calls |-> 1, raised |-> TRUE]
    ELSE [value |-> english_text, calls |-> 0, raised |-> FALSE]

(***************************************************************************)
(* create_review_document                                                  *)
(***************************************************************************)

\* RGBColor(0x77, 0x56, 0xA7), RGBColor(0xE7, 0x4E, 0x4E), 'Lato' and the
\* point sizes.
PURPLE == "7756A7"
RED == "E74E4E"
FONT_NAME == "Lato"
MASTHEAD_SIZE == 10
TITLE_SIZE == 18
HEADING_SIZE == 11
BODY_SIZE == 11

\* A run of a paragraph, and a paragraph of the document.  A run's bold is
\* FALSE unless the code sets it; a paragraph's alignment is "" unless the
\* code sets it to 1 ("center").
Run(t, bold, size, color) ==
    [text |-> t, bold |-> bold, font |-> FONT_NAME, size |-> size,
     color |-> color]
Paragraph(style, alignment, runs) ==
    [style |-> style, alignment |-> alignment, runs |-> runs]

\* doc.add_paragraph()
EmptyParagraph == Paragraph("Normal", "", << >>)

\* The red 11pt bold paragraph of a section header.
HeadingParagraph(t) ==
    Paragraph("Normal", "", <<Run(t, TRUE, HEADING_SIZE, RED)>>)

\* The purple 11pt paragraph of prose.
BodyParagraph(t) ==
    Paragraph("Normal", "", <<Run(t, FALSE, BODY_SIZE, PURPLE)>>)

\* doc.add_paragraph(style='List Bullet') with its purple run.
BulletParagraph(t) ==
    Paragraph("List Bullet", "", <<Run(t, FALSE, BODY_SIZE, PURPLE)>>)

\* One line of "for label, value in meta_style".
MetaParagraph(label, value) ==
    Paragraph("Normal", "",
              <<Run(label, TRUE, HEADING_SIZE, RED),
                Run(value, FALSE, BODY_SIZE, PURPLE)>>)

\* meta_style
meta_style(student, date, reviewer, stat) ==
    << <<<<"Name", ":", " ">>, student>>,
       <<<<"Date", ":", " ">>, date>>,
       <<<<"Reviewer", ":", " ">>, reviewer>>,
       <<<<"Status", ":", " ">>, stat>> >>

\* for label, value in meta_style: a line whose value is empty is left out.
MetaLinesSkippingEmpty(meta) ==
    LET kept == {i \in 1..Len(meta) : meta[i][2] # << >>}
        nth(n) == CHOOSE i \in kept : Cardinality({j \in kept : j < i}) = n - 1
    IN  [n \in 1..Cardinality(kept) |->
            MetaParagraph(meta[nth(n)][1], meta[nth(n)][2])]

\* for label, value in meta_style: one paragraph each.
MetaLines(meta) ==
    [i \in 1..Len(meta) |-> MetaParagraph(meta[i][1], meta[i][2])]

\* Everything the function adds to the document before it reads the
\* feedback: masthead, title, blank, the meta lines, blank.
Preamble(student, date, reviewer, stat) ==
    << Paragraph("Normal", "center",
                 <<Run(<<"SA PRO TRAINER ASSESSMENT">>, TRUE, MASTHEAD_SIZE, RED)>>),
       Paragraph("Normal", "center",
                 <<Run(<<"CLIENT PRACTICAL REVIEW">>, TRUE, TITLE_SIZE, RED)>>),
       EmptyParagraph >>
    \o MetaLines(meta_style(student, date, reviewer, stat))
    \o <<EmptyParagraph>>

\* Python: s.split('\n')
RECURSIVE Split(_)
Split(s) ==
    IF \A i \in 1..Len(s) : s[i] # "\n" THEN <<s>>
    ELSE LET i == CHOOSE k \in 1..Len(s) :
                     s[k] = "\n" /\ \A m \in 1..(k - 1) : s[m] # "\n"
         IN  <<SubSeq(s, 1, i - 1)>> \o Split(SubSeq(s, i + 1, Len(s)))

\* Python: s.strip()
RECURSIVE Strip(_)
Strip(s) ==
    IF s = << >> THEN s
    ELSE IF s[1] = " " THEN Strip(Tail(s))
    ELSE IF s[Len(s)] = " " THEN Strip(SubSeq(s, 1, Len(s) - 1))
    ELSE s

\* Python: s.replace('**', '')
RECURSIVE RemoveBold(_)
RemoveBold(s) ==
    IF Len(s) < 2 THEN s
    ELSE IF s[1] = "*" /\ s[2] = "*" THEN RemoveBold(SubSeq(s, 3, Len(s)))
    ELSE <<s[1]>> \o RemoveBold(Tail(s))

\* Python: s.split(':', 1)[1], for an s that holds ':'
AfterFirstColon(s) ==
    LET i == CHOOSE k \in 1..Len(s) :
                 s[k] = ":" /\ \A m \in 1..(k - 1) : s[m] # ":"
    IN  SubSeq(s, i + 1, Len(s))

\* The conditions of the if/elif chain, on the stripped line.
IsWellLine(line) ==
    \/ Occurs(<<"*", "*", "What you did well", "*", "*">>, line)
    \/ Occurs(<<"What you did well">>, line)
IsImproveLine(line) ==
    \/ Occurs(<<"*", "*", "What you could do differently">>, line)
    \/ Occurs(<<"What you could do differently">>, line)
IsOverallLine(line) ==
    \/ Occurs(<<"*", "*", "Overall", "*", "*">>, line)
    \/ StartsWith(line, <<"Overall">>)
IsBulletLine(line) ==
    \/ StartsWith(line, <<"-", " ">>)
    \/ StartsWith(line, <<"<U+2022>", " ">>)
    \/ StartsWith(line, <<"*", " ">>)

\* The paragraphs each branch of the chain adds.  (Each is preceded by a
\* variant of it that differs the way a slip in that branch would.)

\* The improve branch, its run's text copied from the branch above it.
ImproveAddedCopied ==
    <<EmptyParagraph, HeadingParagraph(<<"What you did well">>)>>

\* Lines 318-323 and 326-332.
WellAdded == <<HeadingParagraph(<<"What you did well">>)>>
ImproveAdded ==
    <<EmptyParagraph,
      HeadingParagraph(<<"What you could do differently", " ", "next time">>)>>

\* The overall branch without its "content after Overall" part.
OverallAddedHeadingOnly(line) ==
    <<EmptyParagraph, HeadingParagraph(<<"Overall">>)>>

\* Lines 335-351.
OverallAdded(line) ==
    <<EmptyParagraph, HeadingParagraph(<<"Overall">>)>>
    \o (IF Occurs(<<":">>, line) /\ Strip(AfterFirstColon(line)) # << >>
        THEN <<BodyParagraph(Strip(AfterFirstColon(line)))>>
        ELSE << >>)

\* The bullet branch without its "remove markdown bold" step.
BulletAddedKeepingBold(line) ==
    <<BulletParagraph(Strip(SubSeq(line, 3, Len(line))))>>

\* Lines 354-361.
BulletAdded(line) ==
    <<BulletParagraph(RemoveBold(Strip(SubSeq(line, 3, Len(line)))))>>

\* The last branch, taken whatever the section is.
LastBranchAnySection(section, line) ==
    IF ~StartsWith(line, <<"#">>) THEN <<BodyParagraph(RemoveBold(line))>>
    ELSE << >>

\* elif current_section == 'overall' and not line.startswith('#'):
\* lines 362-369.
LastBranch(section, line) ==
    IF section = "overall" /\ ~StartsWith(line, <<"#">>)
    THEN <<BodyParagraph(RemoveBold(line))>>
    ELSE << >>

\* One iteration of "for line in lines": the paragraphs it adds and the
\* section it leaves.
ProcessLine(section, raw) ==
    LET line == Strip(raw)
    IN  IF line = << >> THEN [added |-> << >>, section |-> section]
        ELSE IF IsWellLine(line)
        THEN [added |-> WellAdded, section |-> "well"]
        ELSE IF IsImproveLine(line)
        THEN [added |-> ImproveAdded, section |-> "improve"]
        ELSE IF IsOverallLine(line)
        THEN [added |-> OverallAdded(line), section |-> "overall"]
        ELSE IF IsBulletLine(line)
        THEN [added |-> BulletAdded(line), section |-> section]
        ELSE [added |-> LastBranch(section, line), section |-> section]

\* The whole loop over lines[from..], from a document and a section.
RECURSIVE ProcessLines(_, _, _, _)
ProcessLines(document, section, ls, from) ==
    IF from > Len(ls) THEN document
    ELSE LET r == ProcessLine(section, ls[from])
         IN  ProcessLines(document \o r.added, r.section, ls, from + 1)

\* create_review_document(...): the paragraphs of the document it saves.
create_review_document(student, date, reviewer, stat, feedback) ==
    ProcessLines(Preamble(student, date, reviewer, stat), "None",
                 Split(feedback), 1)

(***************************************************************************)
(* Inputs of the normalizer and the translator                             *)
(***************************************************************************)

\* Texts are built from at most MaxUnits units (normalizer) or MaxReplyUnits
\* units (translator: the argument and the reply of the external service).
MaxUnits == 3
MaxReplyUnits == 1

Hdr(phrase) == STARS \o phrase \o STARS
Open(phrase) == STARS \o phrase

Phrases ==
    { <<"What you did well">>,
      <<"What you could do differently", " ", "next time">>,
      <<"Overall">>,
      <<"Ce que vous avez bien fait">>,
      <<"Points forts">>,
      <<"Ce que vous pourriez faire differemment">>,
      <<"Ce que vous pourriez faire differemment", " ", "la prochaine fois">>,
      <<"Points a ameliorer">>,
      <<"CONCLUSION">> }

Units ==
    {Hdr(p) : p \in Phrases}
    \cup {Open(<<"Ce que vous pourriez faire differemment">>),
          Open(<<"Points a ameliorer">>)}
    \cup {<<"*">>, <<"x">>, <<"\n">>}

RECURSIVE TextsOf(_)
TextsOf(n) ==
    IF n = 0 THEN {<< >>}
    ELSE LET shorter == TextsOf(n - 1)
         IN  shorter \cup {t \o u : t \in shorter, u \in Units}

Languages == {"French", "Dutch", "German", ""}

Replies ==
    {[ok |-> TRUE, text |-> t] : t \in TextsOf(MaxReplyUnits)}
    \cup {[ok |-> FALSE, text |-> << >>]}

(***************************************************************************)
(* State that a specification does not use keeps its initial value.        *)
(***************************************************************************)

NormIdle == text = << >> /\ norm1 = << >> /\ norm2 = << >>
TranslateIdle ==
    target_language = "" /\ translated = << >> /\ calls = 0 /\ raised = FALSE
DocIdle ==
    /\ student_name = << >> /\ review_date = << >> /\ reviewer_name = << >>
    /\ status = << >> /\ feedback_text = << >> /\ lines = << >> /\ idx = 0
    /\ current_section = "None" /\ doc = << >>
SessionIdle ==
    /\ api_key = << >> /\ session = << >> /\ event = "" /\ response = << >>

(***************************************************************************)
(* SpecNorm: _ensure_section_headers applied to a text, and again to its   *)
(* own result.                                                             *)
(***************************************************************************)

InitNorm ==
    /\ pc = "in"
    /\ text \in TextsOf(MaxUnits)
    /\ norm1 = << >> /\ norm2 = << >>
    /\ TranslateIdle /\ DocIdle /\ SessionIdle

Normalize ==
    /\ pc = "in"
    /\ norm1' = ensure_section_headers(text)
    /\ pc' = "normalized"
    /\ UNCHANGED <<text, norm2, translateVars, docVars, sessionVars>>

Renormalize ==
    /\ pc = "normalized"
    /\ norm2' = ensure_section_headers(norm1)
    /\ pc' = "renormalized"
    /\ UNCHANGED <<text, norm1, translateVars, docVars, sessionVars>>

NextNorm == Normalize \/ Renormalize

SpecNorm == InitNorm /\ [][NextNorm]_vars

(***************************************************************************)
(* SpecTranslate: one call of translate_feedback.                          *)
(***************************************************************************)

InitTranslate ==
    /\ pc = "in"
    /\ text \in TextsOf(MaxReplyUnits)
    /\ norm1 = << >> /\ norm2 = << >>
    /\ TranslateIdle /\ DocIdle /\ SessionIdle

TranslateFeedback ==
    /\ pc = "in"
    /\ \E language \in Languages, reply \in Replies :
          LET r == translate_feedback(text, language, reply)
          IN  /\ target_language' = language
              /\ translated' = r.value
              /\ calls' = calls + r.calls
              /\ raised' = r.raised
    /\ pc' = "returned"
    /\ UNCHANGED <<normVars, docVars, sessionVars>>

NextTranslate == TranslateFeedback

SpecTranslate == InitTranslate /\ [][NextTranslate]_vars

(***************************************************************************)
(* SpecDoc: one call of create_review_document, the loop over the lines    *)
(* taken one iteration at a time.                                          *)
(***************************************************************************)

\* The feedback holds at most MaxLines lines.
MaxLines == 2

SampleLines ==
    { <<"*", "*", "What you did well", "*", "*">>,
      <<"*", "*", "What you could do differently", " ", "next time", "*", "*">>,
      <<"*", "*", "Overall", "*", "*">>,
      <<"*", "*", "Overall", "*", "*", ":", " ", "Great session overall!">>,
      <<"Overall", ":", " ", "*", "*", "Solid", "*", "*", " ", "session">>,
      <<"Overall", ":", " ">>,
      <<"Overall", ",", " ", "What you could do differently", " ", "is minor">>,
      <<"*", "*", "Overall", ":", "*", "*", " ", "Fine">>,
      <<"-", " ", "*", "*", "Nice work", "*", "*", " ", "on timing">>,
      <<"<U+2022>", " ", "What you did well", " ", "was the greeting">>,
      <<" ", "*", " ", " ", "Try to slow down", " ">>,
      <<"Solid session", " ", "*", "*", "*", "with room">>,
      <<"#", " ", "Notes">>,
      <<" ">>,
      << >> }

RECURSIVE FeedbackOf(_)
FeedbackOf(n) ==
    IF n = 1 THEN SampleLines
    ELSE LET shorter == FeedbackOf(n - 1)
         IN  shorter \cup {t \o <<"\n">> \o l : t \in shorter, l \in SampleLines}

InitDoc ==
    /\ pc = "call"
    /\ student_name \in {<< >>, <<"Amanda", " ", "Dwyer">>}
    /\ review_date \in {<< >>, <<"November 02, 2026">>}
    /\ reviewer_name \in {<< >>, <<"Jo">>}
    /\ status \in {<< >>, <<"Passed">>}
    /\ feedback_text \in FeedbackOf(MaxLines)
    /\ lines = << >> /\ idx = 0 /\ current_section = "None" /\ doc = << >>
    /\ NormIdle /\ TranslateIdle /\ SessionIdle

\* Lines 257-309: the document's head, and the split of the feedback.
DocBegin ==
    /\ pc = "call"
    /\ doc' = Preamble(student_name, review_date, reviewer_name, status)
    /\ lines' = Split(feedback_text)
    /\ current_section' = "None"
    /\ idx' = 1
    /\ pc' = "loop"
    /\ UNCHANGED <<student_name, review_date, reviewer_name, status,
                   feedback_text, normVars, translateVars, sessionVars>>

\* One iteration of the loop.
DocLine ==
    /\ pc = "loop"
    /\ idx <= Len(lines)
    /\ LET r == ProcessLine(current_section, lines[idx])
       IN  /\ doc' = doc \o r.added
           /\ current_section' = r.section
    /\ idx' = idx + 1
    /\ UNCHANGED <<pc, student_name, review_date, reviewer_name, status,
                   feedback_text, lines, normVars, translateVars, sessionVars>>

\* doc.save(doc_buffer) and the return.
DocSave ==
    /\ pc = "loop"
    /\ idx > Len(lines)
    /\ pc' = "saved"
    /\ UNCHANGED <<normVars, translateVars, docVars, sessionVars>>

NextDoc == DocBegin \/ DocLine \/ DocSave

SpecDoc == InitDoc /\ [][NextDoc]_vars

(***************************************************************************)
(* The Streamlit script (lines 380-525).  Every interaction runs the       *)
(* script from top to bottom once; st.session_state is what survives from  *)
(* one run to the next.                                                    *)
(***************************************************************************)

NoSlots == [slot \in {} |-> << >>]
MetaSlots == {"student_name", "review_date", "reviewer_name", "status"}

\* st.session_state[slot] = value
SetSlot(sess, slot, value) == (slot :> value) @@ sess

\* review_date.strftime("%B %d, %Y")
MonthNames ==
    <<"January", "February", "March", "April", "May", "June", "July",
      "August", "September", "October", "November", "December">>
strftime(date) ==
    <<MonthNames[date.month], " ">>
    \o (IF date.day < 10 THEN <<"0">> ELSE << >>) \o <<ToString(date.day)>>
    \o <<",", " ", ToString(date.year)>>

\* What one run shows with st.success / st.error ("" when it shows none).
NoMessage == ""
KeyMissing == "API key not configured. Please contact your administrator."
NameMissing == "Please enter the student's name."
NotesMissing == "Please enter your raw notes."
Generated == "Review generated!"
GenerateFailed == "Error: <exception>"
Translated == "Translated to <language>!"
TranslateFailed == "Translation error: <exception>"
DocumentFailed == "Error generating document: <exception>"

\* The Generate Review handler with the slots written before the call is
\* made instead of after it.
GenerateHandlerStoringFirst(sess, key, form, reply) ==
    IF key = << >>
    THEN [session |-> sess, event |-> KeyMissing, response |-> << >>]
    ELSE IF form.student_name = << >>
    THEN [session |-> sess, event |-> NameMissing, response |-> << >>]
    ELSE IF form.raw_notes = << >>
    THEN [session |-> sess, event |-> NotesMissing, response |-> << >>]
    ELSE LET stored ==
                 SetSlot(SetSlot(SetSlot(SetSlot(sess,
                     "student_name", form.student_name),
                     "review_date", strftime(form.review_date)),
                     "reviewer_name", form.reviewer_name),
                     "status", form.status)
         IN  IF reply.ok
             THEN [session |-> SetSlot(stored, "polished_feedback", reply.text),
                   event |-> Generated, response |-> reply.text]
             ELSE [session |-> stored, event |-> GenerateFailed,
                   response |-> << >>]

\* The Generate Review handler without the check of the student's name.
GenerateHandlerNoNameCheck(sess, key, form, reply) ==
    IF key = << >>
    THEN [session |-> sess, event |-> KeyMissing, response |-> << >>]
    ELSE IF form.raw_notes = << >>
    THEN [session |-> sess, event |-> NotesMissing, response |-> << >>]
    ELSE IF reply.ok
    THEN [session |->
              SetSlot(SetSlot(SetSlot(SetSlot(SetSlot(sess,
                  "polished_feedback", reply.text),
                  "student_name", form.student_name),
                  "review_date", strftime(form.review_date)),
                  "reviewer_name", form.reviewer_name),
                  "status", form.status),
          event |-> Generated, response |-> reply.text]
    ELSE [session |-> sess, event |-> GenerateFailed, response |-> << >>]

\* Lines 433-452: the handler of the Generate Review button.  form holds the
\* widgets' values, reply what get_polished_feedback's call does.
GenerateHandler(sess, key, form, reply) ==
    IF key = << >>
    THEN [session |-> sess, event |-> KeyMissing, response |-> << >>]
    ELSE IF form.student_name = << >>
    THEN [session |-> sess, event |-> NameMissing, response |-> << >>]
    ELSE IF form.raw_notes = << >>
    THEN [session |-> sess, event |-> NotesMissing, response |-> << >>]
    ELSE IF reply.ok
    THEN [session |->
              SetSlot(SetSlot(SetSlot(SetSlot(SetSlot(sess,
                  "polished_feedback", reply.text),
                  "student_name", form.student_name),
                  "review_date", strftime(form.review_date)),
                  "reviewer_name", form.reviewer_name),
                  "status", form.status),
          event |-> Generated, response |-> reply.text]
    ELSE [session |-> sess, event |-> GenerateFailed, response |-> << >>]

\* Lines 460-468: the text area shows the draft; what it returns (the
\* reviewer's text when they changed it, else the draft) is stored back.
TextArea(sess, typed) ==
    IF typed = << >> THEN sess["polished_feedback"] ELSE typed[1]

\* Lines 481-493: the handler of the Translate button.  On success the
\* script is run again at once (st.rerun()).
TranslateHandler(sess, key, edited, language, reply) ==
    IF key = << >>
    THEN [session |-> sess, event |-> KeyMissing, response |-> << >>]
    ELSE LET r == translate_feedback(edited, language, reply)
         IN  IF r.raised
             THEN [session |-> sess, event |-> TranslateFailed,
                   response |-> << >>]
             ELSE [session |-> SetSlot(sess, "polished_feedback", r.value),
                   event |-> Translated, response |-> reply.text]

\* Lines 498-521: the document offered for download, << >> when the export
\* fails (a slot it reads is missing).
Download(sess, edited) ==
    IF MetaSlots \subseteq DOMAIN sess
    THEN [doc |-> create_review_document(sess["student_name"],
                      sess["review_date"], sess["reviewer_name"],
                      sess["status"], edited),
          failed |-> FALSE]
    ELSE [doc |-> << >>, failed |-> TRUE]

\* Lines 455-521: the part of the script below the Generate Review button.
\* typed: what the reviewer typed into the text area (<< >>: nothing);
\* click: whether Translate was clicked, and then language and reply.
DraftSection(g, key, typed, click, language, reply) ==
    IF "polished_feedback" \notin DOMAIN g.session
    THEN [session |-> g.session, event |-> g.event, response |-> g.response,
          doc |-> << >>]
    ELSE LET edited == TextArea(g.session, typed)
             stored == SetSlot(g.session, "polished_feedback", edited)
             t == IF click
                  THEN TranslateHandler(stored, key, edited, language, reply)
                  ELSE [session |-> stored, event |-> g.event,
                        response |-> g.response]
             \* after st.rerun() the text area shows the translation
             shown == IF t.event = Translated
                      THEN t.session["polished_feedback"] ELSE edited
             d == Download(t.session, shown)
         IN  [session |-> t.session,
              event |-> IF d.failed /\ t.event = NoMessage
                        THEN DocumentFailed ELSE t.event,
              response |-> t.response,
              doc |-> d.doc]

(***************************************************************************)
(* Spec: the interactions of one session.                                  *)
(***************************************************************************)

\* What the external service may return, what the reviewer may type.
GeneratedTexts ==
    { Hdr(<<"What you did well">>) \o <<"\n", "-", " ", "Nice work", "\n">>
        \o Hdr(<<"Overall">>) \o <<"\n", "Solid session">>,
      <<"Overall", ":", " ", "Solid session">> }
TranslatedTexts ==
    { Hdr(<<"Ce que vous avez bien fait">>) \o <<"\n", "-", " ", "Bon travail">>,
      Hdr(<<"What you did well">>) \o <<"\n", "-", " ", "Goed gedaan">> }
TypedTexts ==
    { Hdr(<<"What you did well">>) \o <<"\n", "-", " ", "Nice work", " ", "on timing">> }

ServiceReplies(texts) ==
    {[ok |-> TRUE, text |-> t] : t \in texts}
    \cup {[ok |-> FALSE, text |-> << >>]}

Forms ==
    [student_name : {<< >>, <<"Amanda", " ", "Dwyer">>, <<"Bo">>},
     review_date : {[year |-> 2026, month |-> 11, day |-> 2]},
     reviewer_name : {<< >>, <<"Jo">>},
     status : {<<"Passed">>, <<"Cleared">>, <<"Resubmit">>},
     raw_notes : {<< >>, <<"Nice work reassuring the client.">>}]

Init ==
    /\ pc = "script"
    /\ api_key \in {<< >>, <<"sk-ant">>}
    /\ session = NoSlots
    /\ event = NoMessage
    /\ response = << >>
    /\ doc = << >>
    /\ student_name = << >> /\ review_date = << >> /\ reviewer_name = << >>
    /\ status = << >> /\ feedback_text = << >> /\ lines = << >> /\ idx = 0
    /\ current_section = "None"
    /\ NormIdle /\ TranslateIdle

RunResult(r) ==
    /\ session' = r.session
    /\ event' = r.event
    /\ response' = r.response
    /\ doc' = r.doc
    /\ UNCHANGED <<pc, api_key, normVars, translateVars, student_name,
                   review_date, reviewer_name, status, feedback_text, lines,
                   idx, current_section>>

NoReply == [ok |-> FALSE, text |-> << >>]
Untouched == [session |-> session, event |-> NoMessage, response |-> << >>]

\* A run started by a click on Generate Review.
GenerateReview ==
    \E form \in Forms, reply \in ServiceReplies(GeneratedTexts) :
        RunResult(DraftSection(GenerateHandler(session, api_key, form, reply),
                               api_key, << >>, FALSE, "", NoReply))

\* A run started by the reviewer changing the text area.
EditFeedback ==
    /\ "polished_feedback" \in DOMAIN session
    /\ \E typed \in TypedTexts :
          RunResult(DraftSection(Untouched, api_key, <<typed>>, FALSE, "",
                                 NoReply))

\* A run started by a click on Translate.
Translate ==
    /\ "polished_feedback" \in DOMAIN session
    /\ \E language \in {"French", "Dutch"},
          reply \in ServiceReplies(TranslatedTexts) :
          RunResult(DraftSection(Untouched, api_key, << >>, TRUE, language,
                                 reply))

\* A run started by a click on Download, or by any other widget.
Rerun ==
    RunResult(DraftSection(Untouched, api_key, << >>, FALSE, "", NoReply))

Next == GenerateReview \/ EditFeedback \/ Translate \/ Rerun

Spec == Init /\ [][Next]_vars

(***************************************************************************)
(* Properties of the normalizer (SpecNorm)                                 *)
(***************************************************************************)

Headers == 1..Len(header_fixes)

\* C1: the normalizer is idempotent: applying it to its own result changes
\* nothing, for every input text.
C1_Idempotent == pc = "renormalized" => norm2 = norm1

\* C2: a canonical header that occurs in the input is neither altered nor
\* duplicated: the output holds as many occurrences of it as the input,
\* also when other headers are substituted in the same call.
C2_NoDoubleSubstitution ==
    pc = "normalized" =>
        \A h \in Headers :
            Occurs(header_fixes[h].english, text) =>
                CountOcc(header_fixes[h].english, norm1)
                    = CountOcc(header_fixes[h].english, text)

\* The recognizable variants of header h in s: the occurrences of the
\* canonical header and the places where one of its patterns matches.
Variants(h, s) ==
    CountOcc(header_fixes[h].english, s)
    + Cardinality({i \in 1..Len(s) :
          \E k \in 1..Len(header_fixes[h].patterns) :
              MatchEnd(header_fixes[h].patterns[k], s, i) > 0})

OneVariantOfEach(s) == \A h \in Headers : Variants(h, s) = 1

\* C3: for an input with one recognizable variant of each of the three
\* headers, the output holds each canonical header exactly once.
C3_CanonicalHeaders ==
    (pc = "normalized" /\ OneVariantOfEach(text)) =>
        \A h \in Headers : CountOcc(header_fixes[h].english, norm1) = 1

(***************************************************************************)
(* Properties of the translator (SpecTranslate)                            *)
(***************************************************************************)

\* C6: for a target language other than French and Dutch, translate_feedback
\* returns its argument unchanged and calls the external service zero times.
C6_UnsupportedLanguageNoOp ==
    (pc = "returned" /\ target_language \notin {"French", "Dutch"}) =>
        translated = text /\ calls = 0 /\ ~raised

\* A call with an unsupported language on a text the normalizer would change.
C6_Witness ==
    /\ pc = "returned"
    /\ target_language = "German"
    /\ ensure_section_headers(text) # text
    /\ translated = text

(***************************************************************************)
(* Properties of the assembler (SpecDoc)                                   *)
(***************************************************************************)

\* The line the next iteration of the loop reads, stripped.
AtLine == pc = "loop" /\ idx <= Len(lines)
ThisLine == Strip(lines[idx])

\* The section headings of a document, in the order of their paragraphs.
IsHeading(p) ==
    \E t \in {<<"What you did well">>,
              <<"What you could do differently", " ", "next time">>,
              <<"Overall">>} : p = HeadingParagraph(t)
HeadingRank(p) ==
    CASE p = HeadingParagraph(<<"What you did well">>) -> 1
      [] p = HeadingParagraph(<<"What you could do differently", " ",
                                "next time">>) -> 2
      [] OTHER -> 3

\* C4 (as stated): the headings emitted hold each canonical heading at
\* most once, in the order well, improve, overall, for every feedback text.
C4_HeadingsOnceInOrder ==
    \A i, j \in 1..Len(doc) :
        (i < j /\ IsHeading(doc[i]) /\ IsHeading(doc[j])) =>
            HeadingRank(doc[i]) < HeadingRank(doc[j])

\* Which header a line is taken for (0: none), by the order of the chain.
LineKind(raw) ==
    LET line == Strip(raw)
    IN  IF line = << >> THEN 0
        ELSE IF IsWellLine(line) THEN 1
        ELSE IF IsImproveLine(line) THEN 2
        ELSE IF IsOverallLine(line) THEN 3
        ELSE 0

IsHeaderKind(k) == k # 0
HeadingsOf(document) ==
    LET hs == SelectSeq(document, IsHeading)
    IN  [i \in 1..Len(hs) |-> HeadingRank(hs[i])]
HeaderLinesOf(ls, n) ==
    SelectSeq([i \in 1..n |-> LineKind(ls[i])], IsHeaderKind)

\* C4 (amended): the headings emitted are one per header line read so far,
\* in the order of those lines; they hold each heading at most once and in
\* the order well, improve, overall only when the header lines do.
C4_HeadingsFollowHeaderLines ==
    pc \in {"loop", "saved"} =>
        HeadingsOf(doc) = HeaderLinesOf(lines, idx - 1)

\* A saved document for two header lines, improve then overall.
C4_Witness ==
    /\ pc = "saved"
    /\ Len(lines) = 2
    /\ HeadingsOf(doc) = <<2, 3>>

\* C5 (as stated): the saved document holds a "Client: " line, with an
\* empty value run when the client name is empty.
C5_ClientLine ==
    pc = "saved" =>
        \E i \in 1..Len(doc) :
            /\ Len(doc[i].runs) = 2
            /\ doc[i].runs[1].text = <<"Client", ":", " ">>

\* C5 (amended): paragraphs 4 to 7 of the document are the four labelled
\* lines Name, Date, Reviewer, Status, each with its value run, also when
\* the value is empty; no line is left out.
C5_MetaLinesNeverOmitted ==
    pc \in {"loop", "saved"} =>
        /\ Len(doc) >= 8
        /\ doc[4] = MetaParagraph(<<"Name", ":", " ">>, student_name)
        /\ doc[5] = MetaParagraph(<<"Date", ":", " ">>, review_date)
        /\ doc[6] = MetaParagraph(<<"Reviewer", ":", " ">>, reviewer_name)
        /\ doc[7] = MetaParagraph(<<"Status", ":", " ">>, status)
        /\ doc[8] = EmptyParagraph
        /\ \A i \in 1..Len(doc) : Len(doc[i].runs) = 2 => i \in 4..7

\* A saved document for an empty reviewer name, holding a "Reviewer: " line
\* whose value run is empty.
C5_Witness ==
    /\ pc = "saved"
    /\ reviewer_name = << >>
    /\ student_name # << >>
    /\ doc[6].runs[1].text = <<"Reviewer", ":", " ">>
    /\ doc[6].runs[2].text = << >>

IsHeaderLine(line) ==
    IsWellLine(line) \/ IsImproveLine(line) \/ IsOverallLine(line)

\* C8 (as stated): every line that starts with a bullet marker is emitted
\* as exactly one bulleted paragraph, the marker and every "**" removed,
\* whatever the section and whatever else the line holds.
C8_BulletLines ==
    [][(AtLine /\ IsBulletLine(ThisLine)) =>
          doc' = Append(doc, BulletParagraph(
                     RemoveBold(Strip(SubSeq(ThisLine, 3, Len(ThisLine))))))]_vars

\* C8 (amended): every line that starts with a bullet marker and is not
\* taken for a header line (it holds neither "What you did well" nor "What
\* you could do differently" nor "**Overall**") is emitted as exactly one
\* bulleted paragraph, the marker and every "**" removed, whatever the
\* section; the section stays as it is.
C8_BulletLinesNotHeaders ==
    [][(AtLine /\ IsBulletLine(ThisLine) /\ ~IsHeaderLine(ThisLine)) =>
          /\ doc' = Append(doc, BulletParagraph(
                       RemoveBold(Strip(SubSeq(ThisLine, 3, Len(ThisLine))))))
          /\ ~Occurs(STARS, doc'[Len(doc')].runs[1].text)
          /\ current_section' = current_section]_vars

\* The loop has just read "- **Nice work** on timing" and emitted the
\* bullet "Nice work on timing".
C8_Witness ==
    /\ pc = "loop" /\ idx > 1
    /\ Strip(lines[idx - 1])
         = <<"-", " ", "*", "*", "Nice work", "*", "*", " ", "on timing">>
    /\ doc[Len(doc)] = BulletParagraph(<<"Nice work", " ", "on timing">>)

\* What an Overall line adds: spacer, heading, and the trimmed text after
\* its first colon when there is any.
OverallExpected(line) ==
    <<EmptyParagraph, HeadingParagraph(<<"Overall">>)>>
    \o (IF \E i \in 1..Len(line) : line[i] = ":"
        THEN LET rest == Strip(AfterFirstColon(line))
             IN  IF rest = << >> THEN << >> ELSE <<BodyParagraph(rest)>>
        ELSE << >>)

\* C9 (as stated): every line that holds "**Overall**" or starts with
\* "Overall" emits a spacer and the Overall heading, then the trimmed text
\* after its first colon (when there is any) as a body paragraph, and sets
\* the section to overall.
C9_OverallLines ==
    [][(AtLine /\ IsOverallLine(ThisLine)) =>
          /\ current_section' = "overall"
          /\ doc' = doc \o OverallExpected(ThisLine)]_vars

\* C9 (amended): the same, for the lines that hold neither "What you did
\* well" nor "What you could do differently".
C9_OverallLinesNotEarlierHeaders ==
    [][(AtLine /\ IsOverallLine(ThisLine)
          /\ ~IsWellLine(ThisLine) /\ ~IsImproveLine(ThisLine)) =>
          /\ current_section' = "overall"
          /\ doc' = doc \o OverallExpected(ThisLine)]_vars

\* The loop has just read "**Overall**: Great session overall!" and emitted
\* spacer, heading and the body paragraph "Great session overall!".
C9_Witness ==
    /\ pc = "loop" /\ idx > 1
    /\ Strip(lines[idx - 1])
         = <<"*", "*", "Overall", "*", "*", ":", " ", "Great session overall!">>
    /\ current_section = "overall"
    /\ Len(doc) >= 3
    /\ SubSeq(doc, Len(doc) - 2, Len(doc))
         = <<EmptyParagraph, HeadingParagraph(<<"Overall">>),
             BodyParagraph(<<"Great session overall!">>)>>

\* A line that is not blank, no header line and no bullet line.
IsOtherLine(line) ==
    line # << >> /\ ~IsHeaderLine(line) /\ ~IsBulletLine(line)

\* C10: a line that is not blank, no header line and no bullet line is
\* emitted as a body paragraph, "**" removed, exactly when the section is
\* overall and the line does not start with "#"; otherwise nothing is
\* emitted; the section stays as it is either way.
C10_OtherLines ==
    [][(AtLine /\ IsOtherLine(ThisLine)) =>
          /\ current_section' = current_section
          /\ IF current_section = "overall" /\ ThisLine[1] # "#"
             THEN doc' = Append(doc, BodyParagraph(RemoveBold(ThisLine)))
             ELSE doc' = doc]_vars

\* The loop has just read a prose line in section overall and emitted it,
\* and the document holds no second paragraph for it.
C10_Witness ==
    /\ pc = "loop" /\ idx = 3
    /\ IsOverallLine(Strip(lines[1]))
    /\ IsOtherLine(Strip(lines[2]))
    /\ Occurs(STARS, Strip(lines[2]))
    /\ current_section = "overall"
    /\ doc[Len(doc)] = BodyParagraph(RemoveBold(Strip(lines[2])))

(***************************************************************************)
(* Properties of the session (Spec)                                        *)
(***************************************************************************)

\* The draft slot: << >> when it does not exist, else <<its value>>.
DraftOf(sess) ==
    IF "polished_feedback" \in DOMAIN sess
    THEN <<sess["polished_feedback"]>> ELSE << >>

\* C7: a generate or translate run whose external call fails leaves the
\* draft (with the reviewer's edits) and the metadata slots as they were;
\* a run that succeeds replaces the draft by the whole result (generate:
\* the reply, with the four metadata slots; translate: the normalized
\* reply, the metadata untouched); no run leaves anything in between.
C7_FailedCallKeepsDraft ==
    [][/\ event' \in {GenerateFailed, TranslateFailed} => session' = session
       /\ event' = Generated =>
            /\ DOMAIN session' = MetaSlots \cup {"polished_feedback"}
            /\ session'["polished_feedback"] = response'
       /\ event' = Translated =>
            session' = SetSlot(session, "polished_feedback",
                               ensure_section_headers(response'))
       /\ DraftOf(session') \in
            {DraftOf(session), <<response'>>,
             <<ensure_section_headers(response')>>}
            \cup {<<t>> : t \in TypedTexts}]_vars

\* A generate run has failed while the draft held the reviewer's edits, and
\* the draft still holds them.
C7_Witness ==
    /\ event = GenerateFailed
    /\ "polished_feedback" \in DOMAIN session
    /\ session["polished_feedback"] \in TypedTexts
    /\ MetaSlots \subseteq DOMAIN session

\* The four metadata slots of sess hold what the form held.
MetaOf(sess, form) ==
    /\ sess["student_name"] = form.student_name
    /\ sess["review_date"] = strftime(form.review_date)
    /\ sess["reviewer_name"] = form.reviewer_name
    /\ sess["status"] = form.status

\* C11: whenever the draft slot exists, the four metadata slots exist, the
\* stored student name is not empty and the export has built a document
\* without reporting an error; the metadata slots are written only by a
\* successful generate run, which takes all four from the form it was
\* submitted with (its student name not empty), and every other run, a
\* translate run included, leaves them as they were.
C11_DraftImpliesMetadata ==
    /\ []("polished_feedback" \in DOMAIN session =>
            /\ MetaSlots \subseteq DOMAIN session
            /\ session["student_name"] # << >>
            /\ event # DocumentFailed
            /\ doc # << >>)
    /\ [][/\ event' = Generated =>
               \E form \in Forms :
                   form.student_name # << >> /\ MetaOf(session', form)
          /\ event' # Generated =>
               /\ MetaSlots \cap DOMAIN session' = MetaSlots \cap DOMAIN session
               /\ \A slot \in MetaSlots \cap DOMAIN session :
                      session'[slot] = session[slot]]_vars

\* A translate run has succeeded on a draft generated with the reviewer's
\* name left empty: the draft is the translation, the metadata slots are all
\* there and the document was built.
C11_Witness ==
    /\ event = Translated
    /\ "polished_feedback" \in DOMAIN session
    /\ session["polished_feedback"] = ensure_section_headers(response)
    /\ MetaSlots \subseteq DOMAIN session
    /\ session["student_name"] = <<"Amanda", " ", "Dwyer">>
    /\ session["reviewer_name"] = << >>
    /\ session["status"] = <<"Resubmit">>
    /\ doc # << >>

====
